---------------------------- MODULE Spec2Model ----------------------------
(***************************************************************************)
(* PCB Fault Guru: the application state controller (App), the analysis    *)
(* request client (analyzePcbImage) and the conversational client          *)
(* (createChat / sendMessage), as a state machine.                         *)
(*                                                                         *)
(* Texts (model replies, chat messages) are sequences of tokens; JSON.parse *)
(* and the jumper regular expression are computed over those tokens.       *)
(* JavaScript values are tagged records, so that null, numbers, strings,   *)
(* arrays and objects can live in the same variable; each kind keeps its   *)
(* payload in a field of its own name.                                     *)
(***************************************************************************)
EXTENDS Integers, Sequences, FiniteSets, TLC

(***************************************************************************)
(* JavaScript values                                                       *)
(***************************************************************************)
JNull == [t |-> "null"]
JUndef == [t |-> "undefined"]
JBool(b) == [t |-> "bool", b |-> b]
JNum(n) == [t |-> "num", n |-> n]
JStr(s) == [t |-> "str", s |-> s]
JArr(xs) == [t |-> "arr", xs |-> xs]
\* an object is the ordered list of its members [key, val]
JObj(ms) == [t |-> "obj", ms |-> ms]

\* the null of a string-typed state variable (string | null)
NULL == "<null>"

\* JavaScript truthiness (!x is ~Truthy(x))
Truthy(x) ==
    CASE x.t = "null" -> FALSE
      [] x.t = "undefined" -> FALSE
      [] x.t = "bool" -> x.b
      [] x.t = "num" -> x.n # 0
      [] x.t = "str" -> x.s # ""
      [] OTHER -> TRUE

RECURSIVE Lookup(_, _, _)
\* the value of the last member named key among ms[1..i], or undefined
Lookup(ms, key, i) ==
    IF i = 0 THEN JUndef
    ELSE IF ms[i].key = key THEN ms[i].val
    ELSE Lookup(ms, key, i - 1)

\* property access x.key on a value that is not null or undefined
Get(x, key) == IF x.t = "obj" THEN Lookup(x.ms, key, Len(x.ms)) ELSE JUndef

\* optional chaining x?.key
GetOpt(x, key) == IF x.t \in {"null", "undefined"} THEN JUndef ELSE Get(x, key)

HasKey(x, key) == x.t = "obj" /\ \E i \in 1..Len(x.ms) : x.ms[i].key = key

(***************************************************************************)
(* Tokens of a text                                                        *)
(***************************************************************************)
P(c) == [k |-> "p", v |-> c]          \* punctuation { } [ ] : ,
S(s) == [k |-> "s", v |-> s]          \* a JSON string literal "s"
N(n) == [k |-> "n", n |-> n]          \* a JSON number literal
L(w) == [k |-> "lit", v |-> w]        \* null, true, false
W(w) == [k |-> "w", v |-> w]          \* a run of prose (not JSON)
WS == [k |-> "ws", v |-> " "]         \* white space
FenceJson == [k |-> "f", v |-> "json"]    \* three backquotes followed by json
Fence == [k |-> "f", v |-> ""]            \* three backquotes

IsP(tok, c) == tok.k = "p" /\ tok.v = c

RECURSIVE TrimLeft(_)
TrimLeft(ts) == IF ts # <<>> /\ Head(ts).k = "ws" THEN TrimLeft(Tail(ts)) ELSE ts

RECURSIVE TrimRight(_)
TrimRight(ts) ==
    IF ts # <<>> /\ ts[Len(ts)].k = "ws" THEN TrimRight(SubSeq(ts, 1, Len(ts) - 1)) ELSE ts

\* String.prototype.trim
Trim(ts) == TrimRight(TrimLeft(ts))

(***************************************************************************)
(* JSON.parse, by recursive descent over the tokens.  A parse step returns *)
(* [ok, val, rest]; JSON.parse throws (ok = FALSE) on any syntax error and *)
(* on trailing text.                                                       *)
(***************************************************************************)
ParseFail == [ok |-> FALSE, val |-> JUndef, rest |-> <<>>]
ParseOk(x, rest) == [ok |-> TRUE, val |-> x, rest |-> rest]

RECURSIVE SetMember(_, _, _, _)
\* members ms with key set to val: a repeated key keeps its first position
\* and takes the last value, as in a JavaScript object
SetMember(ms, key, val, i) ==
    IF i > Len(ms) THEN Append(ms, [key |-> key, val |-> val])
    ELSE IF ms[i].key = key THEN [ms EXCEPT ![i] = [key |-> key, val |-> val]]
    ELSE SetMember(ms, key, val, i + 1)

RECURSIVE ParseValue(_), ParseMembers(_, _), ParseElements(_, _)
ParseValue(ts0) ==
    LET ts == TrimLeft(ts0) IN
    IF ts = <<>> THEN ParseFail
    ELSE LET h == Head(ts)
             r == Tail(ts)
         IN  CASE h.k = "s" -> ParseOk(JStr(h.v), r)
               [] h.k = "n" -> ParseOk(JNum(h.n), r)
               [] h.k = "lit" ->
                    IF h.v = "null" THEN ParseOk(JNull, r)
                    ELSE IF h.v = "true" THEN ParseOk(JBool(TRUE), r)
                    ELSE IF h.v = "false" THEN ParseOk(JBool(FALSE), r)
                    ELSE ParseFail
               [] IsP(h, "{") ->
                    LET r1 == TrimLeft(r) IN
                    IF r1 # <<>> /\ IsP(Head(r1), "}") THEN ParseOk(JObj(<<>>), Tail(r1))
                    ELSE ParseMembers(r1, <<>>)
               [] IsP(h, "[") ->
                    LET r1 == TrimLeft(r) IN
                    IF r1 # <<>> /\ IsP(Head(r1), "]") THEN ParseOk(JArr(<<>>), Tail(r1))
                    ELSE ParseElements(r1, <<>>)
               [] OTHER -> ParseFail

\* ts starts at a member "key" : value; ms are the members read so far
ParseMembers(ts0, ms) ==
    LET ts == TrimLeft(ts0) IN
    IF ts = <<>> \/ Head(ts).k # "s" THEN ParseFail
    ELSE LET key == Head(ts).v
             r1 == TrimLeft(Tail(ts))
         IN  IF r1 = <<>> \/ ~IsP(Head(r1), ":") THEN ParseFail
             ELSE LET pv == ParseValue(Tail(r1)) IN
                  IF ~pv.ok THEN ParseFail
                  ELSE LET ms1 == SetMember(ms, key, pv.val, 1)
                           r2 == TrimLeft(pv.rest)
                       IN  IF r2 = <<>> THEN ParseFail
                           ELSE IF IsP(Head(r2), "}") THEN ParseOk(JObj(ms1), Tail(r2))
                           ELSE IF IsP(Head(r2), ",") THEN ParseMembers(Tail(r2), ms1)
                           ELSE ParseFail

\* ts starts at an element; xs are the elements read so far
ParseElements(ts, xs) ==
    LET pv == ParseValue(ts) IN
    IF ~pv.ok THEN ParseFail
    ELSE LET xs1 == Append(xs, pv.val)
             r2 == TrimLeft(pv.rest)
         IN  IF r2 = <<>> THEN ParseFail
             ELSE IF IsP(Head(r2), "]") THEN ParseOk(JArr(xs1), Tail(r2))
             ELSE IF IsP(Head(r2), ",") THEN ParseElements(Tail(r2), xs1)
             ELSE ParseFail

\* JSON.parse(text): [ok, val]; ok = FALSE is the SyntaxError it throws
JsonParse(ts) ==
    LET pv == ParseValue(ts) IN
    IF pv.ok /\ TrimLeft(pv.rest) = <<>> THEN [ok |-> TRUE, val |-> pv.val]
    ELSE [ok |-> FALSE, val |-> JUndef]

(***************************************************************************)
(* Bounds of the model                                                     *)
(***************************************************************************)
\* handleReset runs at most this many times (the Start Over / Try Again
\* button and the reset at the start of every upload)
MaxSessions == 3
\* chat requests issued in one run
MaxSends == 2

(***************************************************************************)
(* Inputs                                                                  *)
(***************************************************************************)
Files == {"board1.png"}

\* URL.createObjectURL(file)
BlobUrl(file) == IF file = "board1.png" THEN "blob:board1.png" ELSE "blob:other"

\* { "designator": "U1", "mpn": "LM317", ..., "maxVoltage": 3 }
ComponentU1 ==
    <<P("{"), S("designator"), P(":"), S("U1"), P(","),
      S("mpn"), P(":"), S("LM317"), P(","),
      S("presence"), P(":"), S("ok"), P(","),
      S("condition"), P(":"), S("burnt"), P(","),
      S("maxVoltage"), P(":"), N(3), P("}")>>

\* { "id": "defect-1", "type": "overheating" }
Defect1 ==
    <<P("{"), S("id"), P(":"), S("defect-1"), P(","),
      S("type"), P(":"), S("overheating"), P("}")>>

\* the text of a reply { "components": cs, "defects": ds, "summary": "s" }
ReplyText(cs, ds) ==
    <<P("{"), S("components"), P(":")>> \o cs \o <<P(","), S("defects"), P(":")>> \o ds
        \o <<P(","), S("summary"), P(":"), S("s"), P("}")>>

\* a well-formed reply with one component and one defect, ending in a newline
GoodReply == ReplyText(<<P("[")>> \o ComponentU1 \o <<P("]")>>,
                       <<P("[")>> \o Defect1 \o <<P("]")>>) \o <<WS>>
\* a well-formed reply with one component and no defect
OneComponentReply == ReplyText(<<P("[")>> \o ComponentU1 \o <<P("]")>>, <<P("["), P("]")>>)
\* a well-formed reply with nothing found
EmptyReply == ReplyText(<<P("["), P("]")>>, <<P("["), P("]")>>)
\* prose instead of JSON
ProseReply == <<W("I cannot analyze this image.")>>
\* JSON cut short
TruncatedReply == <<P("{"), S("components"), P(":"), P("["), P("]"), P(",")>>
\* valid JSON without the key defects, without the key components, without both
NoDefectsReply == <<P("{"), S("components"), P(":"), P("["), P("]"), P("}")>>
NoComponentsReply == <<P("{"), S("defects"), P(":"), P("["), P("]"), P("}")>>
EmptyObjectReply == <<WS, P("{"), P("}")>>
\* valid JSON that is no object
NullReply == <<L("null")>>
ArrayReply == <<P("["), P("]")>>
NumberReply == <<N(7)>>
\* both keys, with values that are not lists
NullComponentsReply == ReplyText(<<L("null")>>, <<P("["), P("]")>>)
ZeroDefectsReply == ReplyText(<<P("["), P("]")>>, <<N(0)>>)
EmptyStringDefectsReply == ReplyText(<<P("["), P("]")>>, <<S("")>>)
FalseComponentsReply == ReplyText(<<L("false")>>, <<L("false")>>)
ObjectValuesReply == ReplyText(<<P("{"), P("}")>>, <<N(1)>>)
\* the key components twice: the last value counts
RepeatedKeyReply ==
    <<P("{"), S("components"), P(":"), L("null"), P(","), S("components"), P(":"),
      P("["), P("]"), P(","), S("defects"), P(":"), P("["), P("]"), P("}")>>
\* a trailing comma, and text after the value
TrailingCommaReply == <<P("{"), S("components"), P(":"), P("["), P("]"), P(","), P("}")>>
TrailingTextReply == EmptyReply \o <<W("Hope this helps")>>

\* { "designator": "R2", "mpn": "", ..., "maxVoltage": 0 }: no part number
\* read, no temperature, no datasheet
ComponentR2 ==
    <<P("{"), S("designator"), P(":"), S("R2"), P(","),
      S("mpn"), P(":"), S(""), P(","),
      S("presence"), P(":"), S("ok"), P(","),
      S("condition"), P(":"), S("ok"), P(","),
      S("confidence"), P(":"), N(92), P(","),
      S("maxVoltage"), P(":"), N(0), P("}")>>

\* { "designator": "C3", "mpn": "GRM188", ..., "temperature": 40 }: no
\* maxVoltage
ComponentC3 ==
    <<P("{"), S("designator"), P(":"), S("C3"), P(","),
      S("mpn"), P(":"), S("GRM188"), P(","),
      S("presence"), P(":"), S("missing"), P(","),
      S("condition"), P(":"), S("ok"), P(","),
      S("confidence"), P(":"), N(80), P(","),
      S("temperature"), P(":"), N(40), P("}")>>

\* the text of a reply with advice:
\* { "components": cs, "defects": ds, "summary": "s", "advice": { "alternatives": as } }
AdvisedReplyText(cs, ds, as) ==
    <<P("{"), S("components"), P(":")>> \o cs \o <<P(","), S("defects"), P(":")>> \o ds
        \o <<P(","), S("summary"), P(":"), S("s"), P(","), S("advice"), P(":"),
             P("{"), S("alternatives"), P(":")>> \o as \o <<P("}"), P("}")>>

\* board A: U1 burnt (with a replacement suggested for its part), R2, one defect
BoardAReply ==
    AdvisedReplyText(<<P("[")>> \o ComponentU1 \o <<P(",")>> \o ComponentR2 \o <<P("]")>>,
                     <<P("[")>> \o Defect1 \o <<P("]")>>,
                     <<P("["), P("{"), S("original_mpn"), P(":"), S("LM317"), P(","),
                       S("replacements"), P(":"), P("["), P("]"), P("}"), P("]")>>)
\* board B: C3 missing, no defect, nothing to replace
BoardBReply ==
    AdvisedReplyText(<<P("[")>> \o ComponentC3 \o <<P("]")>>, <<P("["), P("]")>>,
                     <<P("["), P("]")>>)

\* the replies the views are run against
ViewReplies == {BoardAReply, BoardBReply}

\* the replies of the model service that the controller is run against
AnalysisReplies == {OneComponentReply, ProseReply}

\* the replies analyzePcbImage is checked against
AllAnalysisReplies ==
    {GoodReply, OneComponentReply, EmptyReply, ProseReply, TruncatedReply, NoDefectsReply, NoComponentsReply,
     EmptyObjectReply, NullReply, ArrayReply, NumberReply, NullComponentsReply,
     ZeroDefectsReply, EmptyStringDefectsReply, FalseComponentsReply, ObjectValuesReply,
     RepeatedKeyReply, TrailingCommaReply, TrailingTextReply}

(***************************************************************************)
(* analyzePcbImage                                                         *)
(***************************************************************************)
ApiKeyMsg == "API_KEY environment variable not set."
MissingFieldsMsg == "AI response is missing required fields."
InvalidFormatMsg == "AI returned invalid data format. Please try again."
\* the message of an Error the model service client rejects with
ServiceMsg == "service unavailable"

\* the outcome of an async function: a value, or an Error with a message
\* (isError = FALSE: a thrown value that is no Error)
Returned(x) == [threw |-> FALSE, value |-> x, isError |-> FALSE, message |-> ""]
Threw(m) == [threw |-> TRUE, value |-> JUndef, isError |-> TRUE, message |-> m]
ThrewNonError == [threw |-> TRUE, value |-> JUndef, isError |-> FALSE, message |-> ""]

\* a validation that forgets the defects
MissingComponentsOnly(parsed) == ~Truthy(Get(parsed, "components"))

\* a validation that takes an empty list for a missing one
MissingOrEmptyFields(parsed) ==
    \/ ~Truthy(Get(parsed, "components")) \/ ~Truthy(Get(parsed, "defects"))
    \/ Get(parsed, "components") = JArr(<<>>) \/ Get(parsed, "defects") = JArr(<<>>)

\* "Basic validation": !parsed.components || !parsed.defects
MissingRequiredFields(parsed) ==
    ~Truthy(Get(parsed, "components")) \/ ~Truthy(Get(parsed, "defects"))

\* the try block: what it returns, or what it throws into its catch
ParseAnalysis(jsonText) ==
    LET pr == JsonParse(jsonText) IN
    IF ~pr.ok THEN Threw("SyntaxError")
    ELSE IF pr.val.t = "null" THEN Threw("TypeError")     \* null.components
    ELSE IF MissingRequiredFields(pr.val) THEN Threw(MissingFieldsMsg)
    ELSE Returned(pr.val)

\* analyzePcbImage once the model service has replied with text
AnalyzeReply(text) ==
    LET r == ParseAnalysis(Trim(text)) IN
    IF r.threw THEN Threw(InvalidFormatMsg) ELSE r

(***************************************************************************)
(* The state of App                                                        *)
(***************************************************************************)
VARIABLES
    analysis,          \* PcbAnalysis | null
    imageFile,         \* File | null
    imageUrl,          \* string | null
    isLoading,
    error,             \* string | null
    hoveredId,         \* string | null
    selectedId,        \* string | null
    boardVoltage,      \* number | null
    chat,              \* Chat | null
    chatHistory,       \* ChatMessage[]
    isChatLoading,
    jumperSuggestion,  \* JumperSuggestion | null
    isReporting,
    apiKey,            \* whether process.env.API_KEY is set
    analysisCalls,     \* the analyzePcbImage calls handleImageUpload awaits
    chatCalls,         \* the sendMessage calls handleSendMessage awaits
    reportCalls,       \* the generatePdfReport calls handleGenerateReport awaits
    session,           \* history: how many times handleReset has run
    chatsCreated,      \* history: how many Chat objects createChat has made
    chatsSent,         \* history: how many chat requests have been issued
    note               \* history: what the last step was, where a claim asks

appVars == <<analysis, imageFile, imageUrl, isLoading, error, hoveredId, selectedId,
             boardVoltage, chat, chatHistory, isChatLoading, jumperSuggestion, isReporting>>
vars == <<appVars, apiKey, analysisCalls, chatCalls, reportCalls, session, chatsCreated,
          chatsSent, note>>

\* the state of the component as one record, as a handler's setters see it
App ==
    [analysis |-> analysis, imageFile |-> imageFile, imageUrl |-> imageUrl,
     isLoading |-> isLoading, error |-> error, hoveredId |-> hoveredId,
     selectedId |-> selectedId, boardVoltage |-> boardVoltage, chat |-> chat,
     chatHistory |-> chatHistory, isChatLoading |-> isChatLoading,
     jumperSuggestion |-> jumperSuggestion, isReporting |-> isReporting]

\* the state after construction (the useState initial values)
InitialApp ==
    [analysis |-> JNull, imageFile |-> NULL, imageUrl |-> NULL, isLoading |-> FALSE,
     error |-> NULL, hoveredId |-> NULL, selectedId |-> NULL, boardVoltage |-> JNull,
     chat |-> JNull, chatHistory |-> <<>>, isChatLoading |-> FALSE,
     jumperSuggestion |-> JNull, isReporting |-> FALSE]

\* createChat: a new Chat object, told apart by the order of its creation
createChat(n) == [t |-> "chat", id |-> n]

\* an effect that makes a chat for every render with an analysis
ChatEffect_IgnoresChat(s) ==
    IF Truthy(s.analysis) /\ apiKey
    THEN [s EXCEPT !.chat = createChat(chatsCreated + 1)]
    ELSE s

\* the effect that follows every render: a chat is created as soon as an
\* analysis exists, no chat exists and the key is set
ChatEffect(s) ==
    IF Truthy(s.analysis) /\ ~Truthy(s.chat) /\ apiKey
    THEN [s EXCEPT !.chat = createChat(chatsCreated + 1)]
    ELSE s

\* the batched setters of a handler take effect, then the effect runs
Commit(s) ==
    LET r == ChatEffect(s) IN
    /\ analysis' = r.analysis
    /\ imageFile' = r.imageFile
    /\ imageUrl' = r.imageUrl
    /\ isLoading' = r.isLoading
    /\ error' = r.error
    /\ hoveredId' = r.hoveredId
    /\ selectedId' = r.selectedId
    /\ boardVoltage' = r.boardVoltage
    /\ chat' = r.chat
    /\ chatHistory' = r.chatHistory
    /\ isChatLoading' = r.isChatLoading
    /\ jumperSuggestion' = r.jumperSuggestion
    /\ isReporting' = r.isReporting
    /\ chatsCreated' = IF r.chat # s.chat THEN chatsCreated + 1 ELSE chatsCreated

(***************************************************************************)
(* handleReset and handleImageUpload                                       *)
(***************************************************************************)
AnalyzeFallbackMsg == "Failed to analyze PCB image. Please try again."

\* a reset that forgets the board voltage
handleReset_KeepsVoltage(s) ==
    [s EXCEPT !.analysis = JNull, !.imageFile = NULL, !.imageUrl = NULL,
              !.isLoading = FALSE, !.error = NULL, !.hoveredId = NULL,
              !.selectedId = NULL, !.chat = JNull,
              !.chatHistory = <<>>, !.jumperSuggestion = JNull]

\* a reset that forgets the jumper suggestion
handleReset_KeepsJumper(s) ==
    [s EXCEPT !.analysis = JNull, !.imageFile = NULL, !.imageUrl = NULL,
              !.isLoading = FALSE, !.error = NULL, !.hoveredId = NULL,
              !.selectedId = NULL, !.boardVoltage = JNull, !.chat = JNull,
              !.chatHistory = <<>>]

handleReset(s) ==
    [s EXCEPT !.analysis = JNull, !.imageFile = NULL, !.imageUrl = NULL,
              !.isLoading = FALSE, !.error = NULL, !.hoveredId = NULL,
              !.selectedId = NULL, !.boardVoltage = JNull, !.chat = JNull,
              !.chatHistory = <<>>, !.jumperSuggestion = JNull]

\* handleImageUpload up to its await: the reset, then the image and the flag
StartUpload(s, file) ==
    [handleReset(s) EXCEPT !.imageFile = file, !.imageUrl = BlobUrl(file),
                           !.isLoading = TRUE]

\* handleImageUpload after its await: try / catch / finally
FinishUpload(s, outcome) ==
    IF outcome.threw
    THEN [s EXCEPT !.error = IF outcome.isError THEN outcome.message
                             ELSE AnalyzeFallbackMsg,
                   !.isLoading = FALSE]
    ELSE [s EXCEPT !.analysis = outcome.value, !.isLoading = FALSE]

\* something of an earlier session is left in the state
Leftover(s) ==
    \/ s.analysis # JNull \/ s.chat # JNull \/ s.chatHistory # <<>>
    \/ s.boardVoltage # JNull \/ s.jumperSuggestion # JNull \/ s.error # NULL

\* an analyzePcbImage that goes to the service without a key
IssuedRequests_NoKeyCheck(key, n, file) == {[session |-> n, file |-> file]}

\* the requests analyzePcbImage issues for the upload of session n: none
\* when process.env.API_KEY is not set
IssuedRequests(key, n, file) == IF key THEN {[session |-> n, file |-> file]} ELSE {}

\* The uploader is rendered while no image is shown.  Without a key
\* analyzePcbImage rejects before it reads the file, and the catch runs
\* before any other event; with a key the call stays in flight.
Upload(file) ==
    /\ imageUrl = NULL
    /\ session < MaxSessions
    /\ session' = session + 1
    /\ IF apiKey
       THEN Commit(StartUpload(App, file))
       ELSE Commit(FinishUpload(StartUpload(App, file), Threw(ApiKeyMsg)))
    /\ analysisCalls' = analysisCalls \cup IssuedRequests(apiKey, session + 1, file)
    /\ note' = IF Leftover(App) THEN "uploadOverLeftover" ELSE "upload"
    /\ UNCHANGED <<apiKey, chatCalls, reportCalls, chatsSent>>

\* Start Over (shown with an image or while loading) and Try Again (shown
\* with an error)
Reset ==
    /\ imageUrl # NULL \/ isLoading \/ error # NULL
    /\ session < MaxSessions
    /\ session' = session + 1
    /\ Commit(handleReset(App))
    /\ note' = "reset"
    /\ UNCHANGED <<apiKey, analysisCalls, chatCalls, reportCalls, chatsSent>>

\* the FileReader fails: onloadend runs with result null, the split throws
\* inside the callback, and the promise is never settled, so the handler
\* never resumes
FileReadFail(c) ==
    /\ c \in analysisCalls
    /\ analysisCalls' = analysisCalls \ {c}
    /\ note' = "none"
    /\ UNCHANGED <<appVars, apiKey, chatCalls, reportCalls, session, chatsCreated, chatsSent>>

\* the file is read and the model service replies with text
AnalysisReply(c, text) ==
    /\ c \in analysisCalls
    /\ analysisCalls' = analysisCalls \ {c}
    /\ Commit(FinishUpload(App, AnalyzeReply(text)))
    /\ note' = "none"
    /\ UNCHANGED <<apiKey, chatCalls, reportCalls, session, chatsSent>>

\* the file is read and the request to the model service fails
AnalysisFail(c, outcome) ==
    /\ c \in analysisCalls
    /\ analysisCalls' = analysisCalls \ {c}
    /\ Commit(FinishUpload(App, outcome))
    /\ note' = "none"
    /\ UNCHANGED <<apiKey, chatCalls, reportCalls, session, chatsSent>>

ServiceFailures == {Threw(ServiceMsg), ThrewNonError}

(***************************************************************************)
(* Selection, hover and board voltage                                      *)
(***************************************************************************)
\* the elements of a list value (of no other value: the views map over
\* analysis.components and analysis.defects)
Elements(x) == IF x.t = "arr" THEN {x.xs[i] : i \in 1..Len(x.xs)} ELSE {}

\* the ids of the overlay boxes and list items: component designators and
\* defect ids
ItemIds(a) ==
    {Get(c, "designator").s : c \in {e \in Elements(GetOpt(a, "components")) :
                                        Get(e, "designator").t = "str"}}
    \cup {Get(d, "id").s : d \in {e \in Elements(GetOpt(a, "defects")) :
                                     Get(e, "id").t = "str"}}

\* AnalysisViewer and ResultsPanel are rendered
PanelsShown == Truthy(analysis) /\ imageUrl # NULL

\* onClick of an overlay box of the viewer
ToggleSelect(sel, id) == IF sel = id THEN NULL ELSE id

Select(id) ==
    /\ PanelsShown
    /\ id \in ItemIds(analysis)
    /\ Commit([App EXCEPT !.selectedId = ToggleSelect(selectedId, id)])
    /\ note' = "none"
    /\ UNCHANGED <<apiKey, analysisCalls, chatCalls, reportCalls, session, chatsSent>>

\* a click that never deselects
handleItemClick_NeverDeselects(sel, id) == id

\* ExplorerView.handleItemClick: onClick of a list item of the explorer
handleItemClick(sel, id) == IF sel = id THEN NULL ELSE id

ExplorerSelect(id) ==
    /\ PanelsShown
    /\ id \in ItemIds(analysis)
    /\ Commit([App EXCEPT !.selectedId = handleItemClick(selectedId, id)])
    /\ note' = "explorerSelect"
    /\ UNCHANGED <<apiKey, analysisCalls, chatCalls, reportCalls, session, chatsSent>>

\* a === b on values that are strings, numbers, null or undefined
StrictEq(a, b) == a.t = b.t /\ a = b

RECURSIVE FindByMpn(_, _, _)
\* components.find(c => c.mpn === mpn), from index i on
FindByMpn(xs, mpn, i) ==
    IF i > Len(xs) THEN JUndef
    ELSE IF StrictEq(Get(xs[i], "mpn"), mpn) THEN xs[i]
    ELSE FindByMpn(xs, mpn, i + 1)

\* SummaryView.findComponentByMpn
findComponentByMpn(a, mpn) ==
    LET cs == GetOpt(a, "components") IN
    IF cs.t = "arr" THEN FindByMpn(cs.xs, mpn, 1) ELSE JUndef

\* the designators the replacement suggestions of the summary link to
SummaryLinks(a) ==
    LET alts == Elements(GetOpt(GetOpt(a, "advice"), "alternatives"))
        found == {findComponentByMpn(a, Get(alt, "original_mpn")) : alt \in alts}
    IN  {Get(c, "designator").s : c \in {x \in found : Truthy(x) /\ Get(x, "designator").t = "str"}}

\* onClick of a replacement suggestion of the summary:
\* originalComponent && setSelectedId(originalComponent.designator)
SummarySelect(id) ==
    /\ PanelsShown
    /\ id \in SummaryLinks(analysis)
    /\ Commit([App EXCEPT !.selectedId = id])
    /\ note' = "summarySelect"
    /\ UNCHANGED <<apiKey, analysisCalls, chatCalls, reportCalls, session, chatsSent>>

\* onClose of the popover
ClosePopover ==
    /\ PanelsShown
    /\ selectedId # NULL
    /\ Commit([App EXCEPT !.selectedId = NULL])
    /\ note' = "none"
    /\ UNCHANGED <<apiKey, analysisCalls, chatCalls, reportCalls, session, chatsSent>>

\* onMouseEnter (id) and onMouseLeave (NULL)
Hover(id) ==
    /\ PanelsShown
    /\ id \in ItemIds(analysis) \cup {NULL}
    /\ id # hoveredId
    /\ Commit([App EXCEPT !.hoveredId = id])
    /\ note' = "none"
    /\ UNCHANGED <<apiKey, analysisCalls, chatCalls, reportCalls, session, chatsSent>>

\* what the user can type into the board voltage field: nothing, or a number
VoltageInputs == {JNull, JNum(0), JNum(5)}

\* onChange of the board voltage field, shown while an analysis exists:
\* e.target.value ? parseFloat(e.target.value) : null
SetBoardVoltage(v) ==
    /\ Truthy(analysis)
    /\ v # boardVoltage
    /\ Commit([App EXCEPT !.boardVoltage = v])
    /\ note' = "none"
    /\ UNCHANGED <<apiKey, analysisCalls, chatCalls, reportCalls, session, chatsSent>>

(***************************************************************************)
(* The voltage mismatch of a component, as each place computes it           *)
(***************************************************************************)
\* a && b
JsAnd(a, b) == IF Truthy(a) THEN b ELSE a
\* a > b for two numbers; a comparison with undefined or NaN is false
JsGt(a, b) == JBool(a.t = "num" /\ b.t = "num" /\ a.n > b.n)

\* AnalysisViewer: the overlay box of a component
hasVoltageMismatch(bv, component) ==
    JsAnd(bv, JsAnd(Get(component, "maxVoltage"), JsGt(bv, Get(component, "maxVoltage"))))
\* ComponentItem of the explorer list
ComponentItemMismatch(bv, component) ==
    JsAnd(bv, JsAnd(Get(component, "maxVoltage"), JsGt(bv, Get(component, "maxVoltage"))))
\* ComponentInfo of the popover
ComponentInfoMismatch(bv, component) ==
    JsAnd(bv, JsAnd(Get(component, "maxVoltage"), JsGt(bv, Get(component, "maxVoltage"))))
\* the issue list of the PDF report
voltageMismatch(bv, c) ==
    JsAnd(bv, JsAnd(Get(c, "maxVoltage"), JsGt(bv, Get(c, "maxVoltage"))))

(***************************************************************************)
(* The lists of components with issues and of OK components                 *)
(***************************************************************************)
\* what the user can type into the search field of the explorer
SearchTerms == {"", "r", "LM", "3"}

\* s.toLowerCase(), for the designators, part numbers and search terms of
\* the boards
toLowerCase(s) ==
    CASE s = "U1" -> "u1"
      [] s = "R2" -> "r2"
      [] s = "C3" -> "c3"
      [] s = "LM317" -> "lm317"
      [] s = "GRM188" -> "grm188"
      [] s = "LM" -> "lm"
      [] OTHER -> s

\* hay.includes(needle), for the lower-case texts above
includes(hay, needle) ==
    \/ needle = ""
    \/ <<hay, needle>> \in {<<"r2", "r">>, <<"grm188", "r">>, <<"lm317", "lm">>,
                            <<"lm317", "3">>, <<"c3", "3">>}

\* ExplorerView: the components the search term leaves
Filtered(xs, searchTerm) ==
    IF searchTerm # ""
    THEN SelectSeq(xs, LAMBDA c :
             \/ includes(toLowerCase(Get(c, "designator").s), toLowerCase(searchTerm))
             \/ includes(toLowerCase(Get(c, "mpn").s), toLowerCase(searchTerm)))
    ELSE xs

\* ExplorerView: componentsWithIssues and okComponents
ExplorerIssues(xs, searchTerm, bv) ==
    SelectSeq(Filtered(xs, searchTerm), LAMBDA c :
        \/ Get(c, "presence") # JStr("ok")
        \/ Get(c, "condition") # JStr("ok")
        \/ Truthy(JsAnd(bv, JsAnd(Get(c, "maxVoltage"), JsGt(bv, Get(c, "maxVoltage"))))))
ExplorerOk(xs, searchTerm, bv) ==
    SelectSeq(Filtered(xs, searchTerm), LAMBDA c :
        /\ Get(c, "presence") = JStr("ok")
        /\ Get(c, "condition") = JStr("ok")
        /\ ~Truthy(JsAnd(bv, JsAnd(Get(c, "maxVoltage"), JsGt(bv, Get(c, "maxVoltage"))))))

\* ResultsPanel: componentsWithIssues, counted on the tab
PanelIssues(xs, bv) ==
    SelectSeq(xs, LAMBDA c :
        \/ Get(c, "presence") # JStr("ok")
        \/ Get(c, "condition") # JStr("ok")
        \/ Truthy(JsAnd(bv, JsAnd(Get(c, "maxVoltage"), JsGt(bv, Get(c, "maxVoltage"))))))

\* generatePdfReport: componentsWithIssues and okComponents
ReportIssues(xs, bv) ==
    SelectSeq(xs, LAMBDA c :
        \/ Get(c, "presence") # JStr("ok")
        \/ Get(c, "condition") # JStr("ok")
        \/ Truthy(JsAnd(bv, JsAnd(Get(c, "maxVoltage"), JsGt(bv, Get(c, "maxVoltage"))))))
ReportOk(xs, bv) ==
    SelectSeq(xs, LAMBDA c :
        /\ Get(c, "presence") = JStr("ok")
        /\ Get(c, "condition") = JStr("ok")
        /\ ~Truthy(JsAnd(bv, JsAnd(Get(c, "maxVoltage"), JsGt(bv, Get(c, "maxVoltage"))))))

(***************************************************************************)
(* downloadBOM: the CSV of the components                                   *)
(***************************************************************************)
\* `${v}`: the text of a value in a template literal (numbers in the units
\* of the reply)
TemplateText(v) ==
    CASE v.t = "str" -> v.s
      [] v.t = "num" -> ToString(v.n)
      [] v.t = "bool" -> (IF v.b THEN "true" ELSE "false")
      [] v.t = "null" -> "null"
      [] v.t = "undefined" -> "undefined"
      [] v.t = "arr" -> "<list>"
      [] OTHER -> "[object Object]"

\* a ?? b
Nullish(a, b) == IF a.t \in {"null", "undefined"} THEN b ELSE a

BomHeaders ==
    <<"Designator", "MPN", "Presence", "Condition", "Confidence", "Temperature (C)",
      "Max Voltage (V)", "Datasheet">>

\* the cells of the row of component c, each written between double quotes
BomRow(c) ==
    <<TemplateText(Get(c, "designator")),
      TemplateText(Get(c, "mpn")),
      TemplateText(Get(c, "presence")),
      TemplateText(Get(c, "condition")),
      TemplateText(Get(c, "confidence")),
      TemplateText(Nullish(Get(c, "temperature"), JStr("N/A"))),
      TemplateText(Nullish(Get(c, "maxVoltage"), JStr("N/A"))),
      TemplateText(Nullish(Get(c, "datasheetUrl"), JStr("N/A")))>>

\* csvRows of downloadBOM for an analysis with a list of components: the
\* header row, then a row per component
downloadBOM(a) ==
    <<BomHeaders>> \o [i \in 1..Len(Get(a, "components").xs) |->
                          BomRow(Get(a, "components").xs[i])]

\* Download BOM, shown while an analysis exists; the file is made from the
\* state and nothing is stored
DownloadBOM ==
    /\ Truthy(analysis)
    /\ Truthy(GetOpt(analysis, "components"))
    /\ note' = "download"
    /\ UNCHANGED <<appVars, apiKey, analysisCalls, chatCalls, reportCalls, session,
                   chatsCreated, chatsSent>>

(***************************************************************************)
(* The chat: sendMessage and handleSendMessage                             *)
(***************************************************************************)
getStatusText(component) ==
    IF Get(component, "condition") = JStr("burnt") THEN "Burnt"
    ELSE IF Get(component, "condition") = JStr("corroded") THEN "Corroded"
    ELSE IF Get(component, "presence") = JStr("missing") THEN "Missing"
    ELSE "OK"

RECURSIVE FindFrom(_, _, _)
\* the first component from index i on whose designator is id, or undefined
FindFrom(xs, id, i) ==
    IF i > Len(xs) THEN JUndef
    ELSE IF Get(xs[i], "designator") = JStr(id) THEN xs[i]
    ELSE FindFrom(xs, id, i + 1)

\* analysis?.components.find(c => c.designator === selectedId) || undefined
SelectedComponent(a, id) ==
    LET cs == GetOpt(a, "components") IN
    IF cs.t = "arr" /\ Truthy(FindFrom(cs.xs, id, 1)) THEN FindFrom(cs.xs, id, 1) ELSE JUndef

\* the text sendMessage passes to chat.sendMessage
ContextualMessage(message, component, voltage) ==
    (IF Truthy(component)
     THEN <<[k |-> "context", designator |-> Get(component, "designator"),
             mpn |-> Get(component, "mpn"), status |-> getStatusText(component)]>>
     ELSE <<>>)
    \o message
    \o (IF Truthy(voltage) THEN <<[k |-> "note", volts |-> voltage]>> ELSE <<>>)

\* boardVoltage || undefined
VoltageContext(bv) == IF Truthy(bv) THEN bv ELSE JUndef

\* a transcript entry that holds the text with the voltage note
UserMessage_WithNote(message) ==
    [role |-> "user", text |-> message \o <<[k |-> "note", volts |-> JNum(5)]>>,
     jumperSuggestion |-> JUndef]

UserMessage(message) == [role |-> "user", text |-> message, jumperSuggestion |-> JUndef]

ChatErrorText == <<W("Sorry, I encountered an error. Please try again.")>>
ErrorMessage == [role |-> "model", text |-> ChatErrorText, jumperSuggestion |-> JUndef]

\* what the user types into the chat input (ChatView sends it trimmed and
\* only when it is not empty)
Messages == {<<W("Why is U1 burnt?")>>}

\* two questions, to tell a message from another
SendTexts == {<<W("Why is U1 burnt?")>>, <<W("Is R2 rated for this?")>>}

\* a guard that forgets the busy flag
SendRejected_NoBusyCheck(s) == ~Truthy(s.chat)

\* the guard at the top of handleSendMessage
SendRejected(s) == ~Truthy(s.chat) \/ s.isChatLoading

\* handleSendMessage is reachable while the results panel is rendered
SendMessage(message) ==
    /\ PanelsShown
    /\ IF SendRejected(App)
       THEN /\ UNCHANGED <<appVars, chatCalls, chatsSent, chatsCreated>>
            /\ note' = "sendRejected"
       ELSE /\ chatsSent < MaxSends
            /\ Commit([App EXCEPT !.isChatLoading = TRUE,
                                  !.chatHistory = Append(@, UserMessage(message))])
            /\ chatCalls' = chatCalls \cup
                   {[id |-> chatsSent + 1, session |-> session, chat |-> chat,
                     message |-> ContextualMessage(message,
                                     SelectedComponent(analysis, selectedId),
                                     VoltageContext(boardVoltage))]}
            /\ chatsSent' = chatsSent + 1
            /\ note' = "none"
    /\ UNCHANGED <<apiKey, analysisCalls, reportCalls, session>>

(***************************************************************************)
(* JUMPER_JSON_REGEX: a json fence, white space, a brace, the shortest     *)
(* text up to a closing brace that white space and three backquotes follow *)
(***************************************************************************)
RECURSIVE SkipWs(_, _)
\* the first index from i on that holds no white space (Len + 1 if none)
SkipWs(ts, i) == IF i <= Len(ts) /\ ts[i].k = "ws" THEN SkipWs(ts, i + 1) ELSE i

Min(set) == CHOOSE x \in set : \A y \in set : x <= y

\* the closing braces a match that starts at i can end its group with
GroupEnds(ts, i) ==
    IF ts[i] # FenceJson THEN {}
    ELSE LET j == SkipWs(ts, i + 1) IN
         IF j > Len(ts) \/ ~IsP(ts[j], "{") THEN {}
         ELSE {e \in (j + 1)..Len(ts) :
                  /\ IsP(ts[e], "}")
                  /\ SkipWs(ts, e + 1) <= Len(ts)
                  /\ ts[SkipWs(ts, e + 1)].k = "f"}

\* responseText.match(JUMPER_JSON_REGEX): the leftmost match, its group the
\* shortest; from..to is the matched text, open..close the group
JumperMatch(ts) ==
    LET starts == {i \in 1..Len(ts) : GroupEnds(ts, i) # {}} IN
    IF starts = {} THEN [found |-> FALSE, from |-> 0, to |-> 0, open |-> 0, close |-> 0]
    ELSE LET i == Min(starts)
             e == Min(GroupEnds(ts, i))
         IN  [found |-> TRUE, from |-> i, to |-> SkipWs(ts, e + 1),
              open |-> SkipWs(ts, i + 1), close |-> e]

\* a replace that leaves the block in the text
RemoveMatch_KeepsBlock(ts) == ts

\* responseText.replace(JUMPER_JSON_REGEX, ''): a closing fence that is
\* itself followed by json loses only its backquotes
RemoveMatch(ts) ==
    LET m == JumperMatch(ts) IN
    IF ~m.found THEN ts
    ELSE SubSeq(ts, 1, m.from - 1)
         \o (IF ts[m.to] = FenceJson THEN <<W("json")>> ELSE <<>>)
         \o SubSeq(ts, m.to + 1, Len(ts))

\* the jumper handleSendMessage reads from a reply, or null
ExtractJumper(ts) ==
    LET m == JumperMatch(ts) IN
    IF ~m.found THEN JNull
    ELSE LET pr == JsonParse(SubSeq(ts, m.open, m.close)) IN
         IF /\ pr.ok
            /\ Truthy(GetOpt(Get(pr.val, "jumper"), "from"))
            /\ Truthy(GetOpt(Get(pr.val, "jumper"), "to"))
         THEN Get(pr.val, "jumper")
         ELSE JNull

ModelMessage(ts) ==
    [role |-> "model", text |-> Trim(RemoveMatch(ts)),
     jumperSuggestion |-> IF Truthy(ExtractJumper(ts)) THEN ExtractJumper(ts) ELSE JUndef]

\* { "jumper": { "from": {"x": .25, "y": .35}, "to": {"x": .28, "y": .55} } }
\* with the coordinates in hundredths
JumperJson ==
    <<P("{"), S("jumper"), P(":"), P("{"),
      S("from"), P(":"), P("{"), S("x"), P(":"), N(25), P(","), S("y"), P(":"), N(35), P("}"),
      P(","),
      S("to"), P(":"), P("{"), S("x"), P(":"), N(28), P(","), S("y"), P(":"), N(55), P("}"),
      P("}"), P("}")>>

PlainChatReply == <<W("Reflow the joints of U1.")>>
JumperChatReply ==
    <<W("Bypass it with a jumper."), WS, FenceJson, WS>> \o JumperJson \o <<WS, Fence, WS>>

\* { "jumper": { "from": {"x": .6, "y": .1}, "to": {"x": .7, "y": .2} } }
OtherJumperJson ==
    <<P("{"), S("jumper"), P(":"), P("{"),
      S("from"), P(":"), P("{"), S("x"), P(":"), N(60), P(","), S("y"), P(":"), N(10), P("}"),
      P(","),
      S("to"), P(":"), P("{"), S("x"), P(":"), N(70), P(","), S("y"), P(":"), N(20), P("}"),
      P("}"), P("}")>>
\* a second suggestion, with other end points
OtherJumperChatReply ==
    <<W("Or wire around the trace."), WS, FenceJson, WS>> \o OtherJumperJson \o <<WS, Fence>>

\* replies with and without a suggestion
SessionChatReplies == {PlainChatReply, JumperChatReply, OtherJumperChatReply}

\* a fenced block tagged json around content
JsonBlock(content) == <<FenceJson, WS>> \o content \o <<WS, Fence>>

\* { "jumper": { "from": {"x": .25, "y": .35} } }: no to
JumperNoTo ==
    <<P("{"), S("jumper"), P(":"), P("{"),
      S("from"), P(":"), P("{"), S("x"), P(":"), N(25), P(","), S("y"), P(":"), N(35), P("}"),
      P("}"), P("}")>>
\* { "jumper": { "from": null, "to": {"x": .28, "y": .55} } }
JumperNullFrom ==
    <<P("{"), S("jumper"), P(":"), P("{"),
      S("from"), P(":"), L("null"), P(","),
      S("to"), P(":"), P("{"), S("x"), P(":"), N(28), P(","), S("y"), P(":"), N(55), P("}"),
      P("}"), P("}")>>
\* { "pins": 8 }
PinsJson == <<P("{"), S("pins"), P(":"), N(8), P("}")>>

\* no block, white space around the text
PaddedChatReply == <<WS, W("Check the solder joints."), WS>>
\* a jumper block with text on both sides
JumperMidReply == <<W("Add a wire:"), WS>> \o JsonBlock(JumperJson) \o <<WS, W("Then retest.")>>
\* blocks that parse but hold no jumper with from and to
NoToReply == <<W("Bridge the pad."), WS>> \o JsonBlock(JumperNoTo)
NullFromReply == <<W("Bridge the trace."), WS>> \o JsonBlock(JumperNullFrom)
NoJumperReply == <<W("It has eight pins."), WS>> \o JsonBlock(PinsJson)
\* a block that does not parse
UnparsableBlockReply ==
    <<W("Bridge the via."), WS>> \o JsonBlock(<<P("{"), S("jumper"), P(":"), P("}")>>)
\* a json block that holds a list
ArrayBlockReply ==
    <<W("Measure these."), WS>> \o JsonBlock(<<P("["), N(1), P("]")>>)
\* a block that is never closed
UnclosedBlockReply ==
    <<W("Bridge the pin."), WS, FenceJson, WS, P("{"), S("jumper"), P(":")>>
\* a jumper in a block without the json tag
UntaggedBlockReply == <<W("Bridge the lead."), WS, Fence, WS>> \o JumperJson \o <<WS, Fence>>
\* a block without a jumper, then a jumper block
TwoBlocksReply ==
    <<W("Pinout and wire:"), WS>> \o JsonBlock(PinsJson) \o <<WS>> \o JsonBlock(JumperJson)

\* the replies handleSendMessage is checked against
AllChatReplies ==
    {PlainChatReply, PaddedChatReply, JumperChatReply, JumperMidReply, NoToReply,
     NullFromReply, NoJumperReply, UnparsableBlockReply, ArrayBlockReply,
     UnclosedBlockReply, UntaggedBlockReply, TwoBlocksReply}

\* the replies of the chat service that the controller is run against
ChatReplies == {PlainChatReply, JumperChatReply}

\* handleSendMessage after its await, on a response with text
FinishSend(s, text) ==
    [s EXCEPT !.jumperSuggestion = IF Truthy(ExtractJumper(text)) THEN ExtractJumper(text)
                                   ELSE @,
              !.chatHistory = Append(@, ModelMessage(text)),
              !.isChatLoading = FALSE]

\* a catch that shows the fallback in place of the transcript
FailSend_ReplacesTranscript(s) ==
    [s EXCEPT !.chatHistory = <<ErrorMessage>>, !.isChatLoading = FALSE]

\* handleSendMessage after its await, in its catch
FailSend(s) ==
    [s EXCEPT !.chatHistory = Append(@, ErrorMessage), !.isChatLoading = FALSE]

ChatReply(c, text) ==
    /\ c \in chatCalls
    /\ chatCalls' = chatCalls \ {c}
    /\ Commit(FinishSend(App, text))
    /\ note' = "none"
    /\ UNCHANGED <<apiKey, analysisCalls, reportCalls, session, chatsSent>>

\* the call rejects (or its response has no text): the catch runs
ChatFail(c) ==
    /\ c \in chatCalls
    /\ chatCalls' = chatCalls \ {c}
    /\ Commit(FailSend(App))
    /\ note' = "none"
    /\ UNCHANGED <<apiKey, analysisCalls, reportCalls, session, chatsSent>>

(***************************************************************************)
(* handleGenerateReport                                                    *)
(***************************************************************************)
ScreenshotMsg == "Screenshot failed - check the image's CORS policy."
ReportMsg == "Could not generate PDF report."

\* what generatePdfReport can reject with
ReportFailures == {Threw("SCREENSHOT_FAILED"), Threw("jsPDF error")}

\* the Generate Report button is shown while an analysis exists and is
\* disabled while a report is being generated
GenerateReport ==
    /\ Truthy(analysis)
    /\ ~isReporting
    /\ IF ~Truthy(analysis) \/ imageUrl = NULL
       THEN /\ UNCHANGED <<appVars, reportCalls, chatsCreated>>
            /\ note' = "reportRejected"
       ELSE /\ Commit([App EXCEPT !.isReporting = TRUE, !.error = NULL])
            /\ reportCalls' = reportCalls \cup {[session |-> session]}
            /\ note' = "none"
    /\ UNCHANGED <<apiKey, analysisCalls, chatCalls, session, chatsSent>>

ReportDone(c) ==
    /\ c \in reportCalls
    /\ reportCalls' = reportCalls \ {c}
    /\ Commit([App EXCEPT !.isReporting = FALSE])
    /\ note' = "none"
    /\ UNCHANGED <<apiKey, analysisCalls, chatCalls, session, chatsSent>>

ReportFail(c, outcome) ==
    /\ c \in reportCalls
    /\ reportCalls' = reportCalls \ {c}
    /\ Commit([App EXCEPT !.error = IF outcome.isError /\ outcome.message = "SCREENSHOT_FAILED"
                                     THEN ScreenshotMsg ELSE ReportMsg,
                          !.isReporting = FALSE])
    /\ note' = "none"
    /\ UNCHANGED <<apiKey, analysisCalls, chatCalls, session, chatsSent>>

(***************************************************************************)
(* The specification                                                       *)
(***************************************************************************)
Init ==
    /\ analysis = InitialApp.analysis
    /\ imageFile = InitialApp.imageFile
    /\ imageUrl = InitialApp.imageUrl
    /\ isLoading = InitialApp.isLoading
    /\ error = InitialApp.error
    /\ hoveredId = InitialApp.hoveredId
    /\ selectedId = InitialApp.selectedId
    /\ boardVoltage = InitialApp.boardVoltage
    /\ chat = InitialApp.chat
    /\ chatHistory = InitialApp.chatHistory
    /\ isChatLoading = InitialApp.isChatLoading
    /\ jumperSuggestion = InitialApp.jumperSuggestion
    /\ isReporting = InitialApp.isReporting
    /\ apiKey \in BOOLEAN
    /\ analysisCalls = {}
    /\ chatCalls = {}
    /\ reportCalls = {}
    /\ session = 0
    /\ chatsCreated = 0
    /\ chatsSent = 0
    /\ note = "none"

Next ==
    \/ \E file \in Files : Upload(file)
    \/ Reset
    \/ \E c \in analysisCalls : FileReadFail(c)
    \/ \E c \in analysisCalls, text \in AnalysisReplies : AnalysisReply(c, text)
    \/ \E c \in analysisCalls, outcome \in ServiceFailures : AnalysisFail(c, outcome)
    \/ \E id \in ItemIds(analysis) : Select(id)
    \/ ClosePopover
    \/ \E id \in ItemIds(analysis) \cup {NULL} : Hover(id)
    \/ \E v \in VoltageInputs : SetBoardVoltage(v)
    \/ \E message \in Messages : SendMessage(message)
    \/ \E c \in chatCalls, text \in ChatReplies : ChatReply(c, text)
    \/ \E c \in chatCalls : ChatFail(c)
    \/ GenerateReport
    \/ \E c \in reportCalls : ReportDone(c)
    \/ \E c \in reportCalls, outcome \in ReportFailures : ReportFail(c, outcome)

Spec == Init /\ [][Next]_vars

\* analyzePcbImage against every reply text: uploads, resets, the ways the
\* analysis call ends and the board voltage field
NextAnalyze ==
    \/ \E file \in Files : Upload(file)
    \/ Reset
    \/ \E c \in analysisCalls : FileReadFail(c)
    \/ \E v \in VoltageInputs : SetBoardVoltage(v)
    \/ \E c \in analysisCalls, text \in AllAnalysisReplies : AnalysisReply(c, text)
    \/ \E c \in analysisCalls, outcome \in ServiceFailures : AnalysisFail(c, outcome)

SpecAnalyze == Init /\ [][NextAnalyze]_vars

\* the views: uploads, resets, the replies for two boards, every way to
\* select and deselect, and the board voltage field
NextView ==
    \/ \E file \in Files : Upload(file)
    \/ Reset
    \/ \E c \in analysisCalls, text \in ViewReplies : AnalysisReply(c, text)
    \/ \E id \in ItemIds(analysis) : Select(id)
    \/ \E id \in ItemIds(analysis) : ExplorerSelect(id)
    \/ \E id \in SummaryLinks(analysis) : SummarySelect(id)
    \/ ClosePopover
    \/ \E v \in VoltageInputs : SetBoardVoltage(v)
    \/ DownloadBOM

SpecView == Init /\ [][NextView]_vars

\* handleSendMessage against every reply text: one analysis, sends and the
\* ways the chat call ends
NextChat ==
    \/ \E file \in Files : Upload(file)
    \/ \E c \in analysisCalls, text \in {OneComponentReply} : AnalysisReply(c, text)
    \/ \E message \in Messages : SendMessage(message)
    \/ \E c \in chatCalls, text \in AllChatReplies : ChatReply(c, text)
    \/ \E c \in chatCalls : ChatFail(c)

SpecChat == Init /\ [][NextChat]_vars

\* handleSendMessage against every selection and board voltage of a board
\* with two components and a defect
NextSend ==
    \/ \E file \in Files : Upload(file)
    \/ \E c \in analysisCalls, text \in {BoardAReply} : AnalysisReply(c, text)
    \/ \E id \in ItemIds(analysis) : Select(id)
    \/ \E v \in VoltageInputs : SetBoardVoltage(v)
    \/ \E message \in SendTexts : SendMessage(message)
    \/ \E c \in chatCalls, text \in {PlainChatReply} : ChatReply(c, text)
    \/ \E c \in chatCalls : ChatFail(c)

SpecSend == Init /\ [][NextSend]_vars

\* the sessions of the controller: uploads and resets, two boards, the chat
\* of each analysis and the ways its calls end
NextSession ==
    \/ \E file \in Files : Upload(file)
    \/ Reset
    \/ \E c \in analysisCalls, text \in ViewReplies : AnalysisReply(c, text)
    \/ \E c \in analysisCalls, outcome \in ServiceFailures : AnalysisFail(c, outcome)
    \/ \E message \in Messages : SendMessage(message)
    \/ \E c \in chatCalls, text \in SessionChatReplies : ChatReply(c, text)
    \/ \E c \in chatCalls : ChatFail(c)

SpecSession == Init /\ [][NextSession]_vars

(***************************************************************************)
(* Claims                                                                  *)
(***************************************************************************)
\* a call belongs to the session that issued it; handleReset ends a session
Stale(c) == c.session # session
Current(c) == c.session = session

\* the awaited analyzePcbImage call c settles in this step
AnalysisCompletes(c) ==
    \/ \E text \in AllAnalysisReplies : AnalysisReply(c, text)
    \/ \E outcome \in ServiceFailures : AnalysisFail(c, outcome)

\* the awaited sendMessage call c settles in this step
ChatCompletes(c) ==
    \/ \E text \in ChatReplies : ChatReply(c, text)
    \/ ChatFail(c)

\* C1: the completion (reply or failure) of an analysis request that was
\* issued before the last reset changes neither analysis, nor error, nor
\* the loading flag.
C1_StaleAnalysisIgnored ==
    [][\A c \in analysisCalls :
          (Stale(c) /\ AnalysisCompletes(c)) => UNCHANGED <<analysis, error, isLoading>>]_vars

\* C2: in the step that starts an upload, analysis, transcript, chat
\* session, boardVoltage, selectedId, hoveredId and the jumper suggestion are
\* cleared, and so is error when the step issues the analysis request.
C2_UploadClearsSession ==
    [][(\E file \in Files : Upload(file)) =>
          /\ analysis' = JNull /\ chatHistory' = <<>> /\ chat' = JNull
          /\ boardVoltage' = JNull /\ selectedId' = NULL /\ hoveredId' = NULL
          /\ jumperSuggestion' = JNull
          /\ (analysisCalls' # analysisCalls => error' = NULL)]_vars

\* an upload over what a completion after a reset left behind, its request
\* in flight
C2_UploadOverLeftover ==
    /\ note = "uploadOverLeftover"
    /\ \E c \in analysisCalls : Current(c)
    /\ analysis = JNull /\ chatHistory = <<>> /\ boardVoltage = JNull

\* C3: at most one chat request is in flight in every reachable state, and
\* a send-message event while one is in flight issues no request and
\* appends nothing to the transcript.
C3_OneChatRequestInFlight ==
    /\ [](Cardinality(chatCalls) <= 1)
    /\ [][\A message \in Messages :
             (chatCalls # {} /\ SendMessage(message)) =>
                 UNCHANGED <<chatCalls, chatHistory, chatsSent>>]_vars

\* a send was rejected while the one request was in flight
C3_SendRejectedWhileBusy ==
    /\ note = "sendRejected"
    /\ Cardinality(chatCalls) = 1
    /\ isChatLoading

\* C4: the completion (reply or failure) of a chat request that was sent
\* before the last reset appends nothing to the transcript and leaves the
\* jumper suggestion alone.
C4_StaleChatDiscarded ==
    [][\A c \in chatCalls :
          (Stale(c) /\ ChatCompletes(c)) => UNCHANGED <<chatHistory, jumperSuggestion>>]_vars

\* the reply text is valid JSON
ValidJson(text) == JsonParse(Trim(text)).ok
\* the value the reply text is JSON for
Parsed(text) == JsonParse(Trim(text)).val
\* the reply is JSON with both top-level keys
HasBothKeys(text) ==
    ValidJson(text) /\ HasKey(Parsed(text), "components") /\ HasKey(Parsed(text), "defects")

\* C5: a reply that is not valid JSON, or is JSON lacking the key
\* components or the key defects, makes analyzePcbImage throw the 'invalid
\* data format' error, and the controller stores that message and no analysis.
C5_MalformedReplyFails ==
    [][\A c \in analysisCalls, text \in AllAnalysisReplies :
          (~HasBothKeys(text) /\ AnalysisReply(c, text)) =>
              /\ AnalyzeReply(text).threw
              /\ AnalyzeReply(text).message = InvalidFormatMsg
              /\ error' = InvalidFormatMsg
              /\ analysis' = analysis
              /\ ~isLoading']_vars

\* a malformed reply has been turned into the error message
C5_InvalidFormatShown ==
    /\ error = InvalidFormatMsg
    /\ analysis = JNull
    /\ imageUrl # NULL /\ ~isLoading /\ analysisCalls = {}

\* C6 (as claimed): a reply that is valid JSON with both keys, whatever
\* their values, makes analyzePcbImage return the parsed JSON, which the
\* controller stores.
C6_PresentKeysSucceed ==
    [][\A c \in analysisCalls, text \in AllAnalysisReplies :
          (HasBothKeys(text) /\ AnalysisReply(c, text)) =>
              /\ ~AnalyzeReply(text).threw
              /\ analysis' = Parsed(text)
              /\ error' = error]_vars

\* C6 (amended): a reply that is valid JSON returns the parsed JSON when the
\* values of components and defects are both truthy (any list, the empty one
\* included), and throws the 'invalid data format' error when one of them is
\* null, false, 0 or the empty string.
C6_TruthyFieldsSucceed ==
    [][\A c \in analysisCalls, text \in AllAnalysisReplies :
          (HasBothKeys(text) /\ AnalysisReply(c, text)) =>
              IF Truthy(Get(Parsed(text), "components")) /\ Truthy(Get(Parsed(text), "defects"))
              THEN /\ AnalyzeReply(text) = Returned(Parsed(text))
                   /\ analysis' = Parsed(text)
                   /\ error' = error
              ELSE /\ AnalyzeReply(text).threw
                   /\ AnalyzeReply(text).message = InvalidFormatMsg
                   /\ error' = InvalidFormatMsg
                   /\ analysis' = analysis]_vars

\* a reply with two empty lists has been stored as the analysis
C6_EmptyListsStored ==
    /\ analysis = Parsed(EmptyReply)
    /\ error = NULL /\ ~isLoading /\ imageUrl # NULL

\* the states of the controller
Idle ==
    /\ analysis = JNull /\ imageFile = NULL /\ imageUrl = NULL /\ ~isLoading
    /\ error = NULL /\ hoveredId = NULL /\ selectedId = NULL /\ boardVoltage = JNull
    /\ chat = JNull /\ chatHistory = <<>> /\ jumperSuggestion = JNull
Loading == isLoading /\ error = NULL /\ analysis = JNull
Ready == analysis # JNull /\ error = NULL /\ ~isLoading
ErrorState == error # NULL /\ analysis = JNull /\ ~isLoading

\* the awaited analyzePcbImage call c rejects in this step
AnalysisFails(c) ==
    \/ \E outcome \in ServiceFailures : AnalysisFail(c, outcome)
    \/ \E text \in AllAnalysisReplies : AnalyzeReply(text).threw /\ AnalysisReply(c, text)

\* C7: after a failure of the analysis request of the current session
\* (missing credential, service failure, malformed reply) error is set,
\* analysis is null and the loading flag is false; a reset from a state with
\* an error leads to IDLE.
C7_AnalysisFailureGivesError ==
    [][/\ \A c \in analysisCalls : (Current(c) /\ AnalysisFails(c)) => ErrorState'
       /\ (~apiKey /\ \E file \in Files : Upload(file)) => ErrorState'
       /\ (error # NULL /\ Reset) => Idle']_vars

\* C8: a failing chat request appends the fallback message right after the
\* user's message and nothing else; a completing chat request (reply or
\* failure) leaves the chat not busy.
C8_ChatFailureAppendsFallback ==
    [][\A c \in chatCalls :
          /\ ChatFail(c) =>
                /\ chatHistory # <<>>
                /\ chatHistory[Len(chatHistory)].role = "user"
                /\ chatHistory' = Append(chatHistory, ErrorMessage)
          /\ ChatCompletes(c) => ~isChatLoading']_vars

\* C9: while the request of the current session is in flight the controller
\* is in LOADING (no error, no analysis), and its well-formed reply leads to
\* READY with the reply's parsed JSON as the analysis.
C9_UploadReachesReady ==
    /\ [](\A c \in analysisCalls : Current(c) => Loading)
    /\ [][\A c \in analysisCalls, text \in AllAnalysisReplies :
             (Current(c) /\ ~AnalyzeReply(text).threw /\ AnalysisReply(c, text)) =>
                 Ready' /\ analysis' = Parsed(text)]_vars

\* C10: a reset leaves analysis, image, error, hoveredId, selectedId,
\* boardVoltage, chat session and jumper suggestion null, the loading flag
\* false and the transcript empty, and issues no request.
C10_ResetYieldsIdle ==
    [][Reset => Idle' /\ UNCHANGED <<analysisCalls, chatCalls, reportCalls>>]_vars

\* a reset while a chat request of the session it ends is in flight
C10_ResetDuringChat ==
    /\ note = "reset"
    /\ \E c \in chatCalls : c.session = session - 1
    /\ Idle

\* C11 (as claimed): from the overlay boxes, the explorer list and the
\* replacement links of the summary alike, a click on the selected id leaves
\* no selection and a click on another id selects that id.
C11_EveryEntryPointToggles ==
    [][\A id \in ItemIds(analysis) :
          (Select(id) \/ ExplorerSelect(id) \/ SummarySelect(id)) =>
              selectedId' = IF selectedId = id THEN NULL ELSE id]_vars

\* C11 (amended): a click on an overlay box or on an explorer list item
\* deselects the selected id and selects any other id; a click on a
\* replacement link of the summary selects its component also when that
\* component is already selected.
C11_BoxesAndListToggle ==
    [][\A id \in ItemIds(analysis) :
          /\ (Select(id) \/ ExplorerSelect(id)) =>
                selectedId' = IF selectedId = id THEN NULL ELSE id
          /\ SummarySelect(id) => selectedId' = id]_vars

\* an item of board A is selected while another can be clicked
C11_SelectedAmongSeveral ==
    /\ PanelsShown
    /\ note = "explorerSelect"
    /\ selectedId = "R2"
    /\ {"U1", "R2", "defect-1"} \subseteq ItemIds(analysis)
    /\ "U1" \in SummaryLinks(analysis)

\* the fenced json blocks of a reply: where they open, where the block that
\* opens at i closes, what is between
JsonBlockOpens(ts) ==
    {i \in 1..Len(ts) : ts[i] = FenceJson /\ \E j \in (i + 1)..Len(ts) : ts[j].k = "f"}
BlockClose(ts, i) == Min({j \in (i + 1)..Len(ts) : ts[j].k = "f"})
BlockContent(ts, i) == JsonParse(Trim(SubSeq(ts, i + 1, BlockClose(ts, i) - 1)))
\* the block that opens at i holds a jumper with two points
HoldsJumper(ts, i) ==
    /\ BlockContent(ts, i).ok
    /\ GetOpt(Get(BlockContent(ts, i).val, "jumper"), "from").t = "obj"
    /\ GetOpt(Get(BlockContent(ts, i).val, "jumper"), "to").t = "obj"
JumperOf(ts, i) == Get(BlockContent(ts, i).val, "jumper")
\* the reply without the block that opens at i
WithoutBlock(ts, i) == SubSeq(ts, 1, i - 1) \o SubSeq(ts, BlockClose(ts, i) + 1, Len(ts))
JumperBlockOpens(ts) == {i \in JsonBlockOpens(ts) : HoldsJumper(ts, i)}
\* the message a step appended to the transcript
Appended == chatHistory'[Len(chatHistory')]

\* C12 (as claimed): a reply with a fenced json block that holds a jumper
\* with from and to gives a model message with that jumper and with the
\* reply less the block as its text; a reply with no such block gives a
\* model message without jumper whose text is the raw reply.
C12_JumperExtracted ==
    [][\A c \in chatCalls, text \in AllChatReplies :
          ChatReply(c, text) =>
              /\ Len(chatHistory') = Len(chatHistory) + 1
              /\ Appended.role = "model"
              /\ IF JumperBlockOpens(text) # {}
                 THEN /\ Appended.jumperSuggestion = JumperOf(text, Min(JumperBlockOpens(text)))
                      /\ Appended.text = WithoutBlock(text, Min(JumperBlockOpens(text)))
                 ELSE /\ Appended.jumperSuggestion = JUndef
                      /\ Appended.text = text]_vars

\* C12 (amended): a reply whose first fenced json block holds a jumper with
\* from and to gives a model message with that jumper and with the reply
\* less that block, trimmed of surrounding white space, as its text; a reply
\* with no fenced json block gives a model message without jumper whose
\* text is the reply trimmed of surrounding white space.
C12_FirstBlockExtractedTrimmed ==
    [][\A c \in chatCalls, text \in AllChatReplies :
          ChatReply(c, text) =>
              /\ Len(chatHistory') = Len(chatHistory) + 1
              /\ Appended.role = "model"
              /\ (JsonBlockOpens(text) # {} /\ HoldsJumper(text, Min(JsonBlockOpens(text)))) =>
                    /\ Appended.jumperSuggestion = JumperOf(text, Min(JsonBlockOpens(text)))
                    /\ Appended.text = Trim(WithoutBlock(text, Min(JsonBlockOpens(text))))
              /\ JsonBlockOpens(text) = {} =>
                    /\ Appended.jumperSuggestion = JUndef
                    /\ Appended.text = Trim(text)]_vars

\* the reply with a jumper block between two texts has been appended, its
\* jumper drawn
C12_JumperMessageAppended ==
    /\ chatHistory # <<>>
    /\ chatHistory[Len(chatHistory)].role = "model"
    /\ chatHistory[Len(chatHistory)].text = <<W("Add a wire:"), WS, WS, W("Then retest.")>>
    /\ chatHistory[Len(chatHistory)].jumperSuggestion = Parsed(JumperJson).ms[1].val
    /\ jumperSuggestion = chatHistory[Len(chatHistory)].jumperSuggestion

\* C13: a reply whose first fenced json block does not parse, or parses to
\* something without a jumper that has from and to, gives a model message
\* without jumper whose text is the raw reply with the block in it (as
\* received, or trimmed of surrounding white space), no fallback message, and
\* an unchanged jumper suggestion.
C13_MalformedBlockShownRaw ==
    [][\A c \in chatCalls, text \in AllChatReplies :
          (/\ JsonBlockOpens(text) # {}
           /\ ~HoldsJumper(text, Min(JsonBlockOpens(text)))
           /\ ChatReply(c, text)) =>
              /\ Len(chatHistory') = Len(chatHistory) + 1
              /\ Appended.role = "model"
              /\ Appended.jumperSuggestion = JUndef
              /\ Appended.text \in {text, Trim(text)}
              /\ jumperSuggestion' = jumperSuggestion]_vars

\* handleSendMessage took the message: one more request is in flight
Sent(message) == SendMessage(message) /\ chatsSent' = chatsSent + 1
Outbound == (CHOOSE c \in chatCalls' \ chatCalls : TRUE).message
\* the components of the analysis that selectedId names
NamedComponents ==
    IF GetOpt(analysis, "components").t # "arr" THEN {}
    ELSE {i \in 1..Len(Get(analysis, "components").xs) :
             Get(Get(analysis, "components").xs[i], "designator") = JStr(selectedId)}
ContextOf(component) ==
    [k |-> "context", designator |-> Get(component, "designator"),
     mpn |-> Get(component, "mpn"), status |-> getStatusText(component)]

\* C14: the outbound message is the user's text, with the context of the
\* selected component before it exactly when selectedId names a component of
\* the analysis, and with the voltage note after it exactly when boardVoltage
\* is not null, 0 included.
C14_OutboundDecorated ==
    [][\A message \in SendTexts :
          Sent(message) =>
              Outbound =
                  (IF NamedComponents # {}
                   THEN <<ContextOf(Get(analysis, "components").xs[Min(NamedComponents)])>>
                   ELSE <<>>)
                  \o message
                  \o (IF boardVoltage # JNull
                      THEN <<[k |-> "note", volts |-> boardVoltage]>>
                      ELSE <<>>)]_vars

\* the decorations a text sent to the model can carry
Decorated(text) == \E i \in 1..Len(text) : text[i].k \in {"context", "note"}

\* C15: a sent message is appended to the transcript as the text the user
\* submitted, and every user message of the transcript is free of the
\* context and of the voltage note.
C15_TranscriptHoldsSubmittedText ==
    /\ [][\A message \in SendTexts :
             Sent(message) =>
                 chatHistory' = Append(chatHistory,
                     [role |-> "user", text |-> message, jumperSuggestion |-> JUndef])]_vars
    /\ [](\A i \in 1..Len(chatHistory) :
             chatHistory[i].role = "user" =>
                 /\ chatHistory[i].text \in SendTexts
                 /\ ~Decorated(chatHistory[i].text))

\* a message is in flight with the context of U1 and the note of 5 V, and
\* the transcript shows the bare question
C15_DecoratedSentBareShown ==
    /\ selectedId = "U1"
    /\ boardVoltage = JNum(5)
    /\ \E c \in chatCalls :
          /\ Len(c.message) = 3
          /\ c.message[1].k = "context"
          /\ c.message[3].k = "note"
          /\ chatHistory # <<>>
          /\ chatHistory[Len(chatHistory)] =
                 [role |-> "user", text |-> <<c.message[2]>>, jumperSuggestion |-> JUndef]

\* boardVoltage != null && maxVoltage != null && boardVoltage > maxVoltage
MismatchPredicate(bv, component) ==
    /\ bv.t = "num"
    /\ Get(component, "maxVoltage").t = "num"
    /\ bv.n > Get(component, "maxVoltage").n
ComponentsOf(a) ==
    IF GetOpt(a, "components").t # "arr" THEN {}
    ELSE {Get(a, "components").xs[i] : i \in 1..Len(Get(a, "components").xs)}

\* C16: for every component of the analysis shown and every board voltage,
\* the viewer, the explorer list, the popover and the PDF report classify the
\* component as voltage-mismatched exactly when boardVoltage is not null,
\* maxVoltage is not null and boardVoltage > maxVoltage; with no board
\* voltage nothing is mismatched.
C16_MismatchIsThePredicate ==
    \A component \in ComponentsOf(analysis) :
        /\ Truthy(hasVoltageMismatch(boardVoltage, component))
              = MismatchPredicate(boardVoltage, component)
        /\ Truthy(ComponentItemMismatch(boardVoltage, component))
              = MismatchPredicate(boardVoltage, component)
        /\ Truthy(ComponentInfoMismatch(boardVoltage, component))
              = MismatchPredicate(boardVoltage, component)
        /\ Truthy(voltageMismatch(boardVoltage, component))
              = MismatchPredicate(boardVoltage, component)

\* C17: without a credential an upload ends at once with the configuration
\* error and issues no request: no analysis request is ever in flight.
C17_NoKeyNoRequest ==
    /\ [](~apiKey => analysisCalls = {})
    /\ [][\A file \in Files :
             (~apiKey /\ Upload(file)) =>
                 /\ analysisCalls' = analysisCalls
                 /\ error' = ApiKeyMsg
                 /\ ~isLoading'
                 /\ analysis' = JNull]_vars

\* an upload without a credential has just failed
C17_ConfigurationErrorShown ==
    /\ ~apiKey
    /\ note \in {"upload", "uploadOverLeftover"}
    /\ error = ApiKeyMsg
    /\ imageUrl # NULL
    /\ analysisCalls = {}

\* the optional fields of a component, by the column they are written to
OptionalColumns == <<[col |-> 6, key |-> "temperature"], [col |-> 7, key |-> "maxVoltage"],
                     [col |-> 8, key |-> "datasheetUrl"]>>

\* C18: the CSV of an analysis has the header row and one row per component
\* in the order of the analysis; a missing optional field and an empty MPN
\* are written as the placeholder, and no cell is the empty string.
C18_RowsAndPlaceholders ==
    note = "download" =>
        LET cs == Get(analysis, "components").xs
            csv == downloadBOM(analysis)
        IN  /\ Len(csv) = Len(cs) + 1
            /\ csv[1] = BomHeaders
            /\ \A i \in 1..Len(cs) :
                  /\ csv[i + 1][1] = Get(cs[i], "designator").s
                  /\ \A j \in 1..3 :
                        Get(cs[i], OptionalColumns[j].key).t \in {"null", "undefined"}
                            => csv[i + 1][OptionalColumns[j].col] = "N/A"
                  /\ Get(cs[i], "mpn") = JStr("") => csv[i + 1][2] = "N/A"
                  /\ \A j \in 1..8 : csv[i + 1][j] # ""

\* C19: the start, the success and the failure of a PDF export leave the
\* analysis, the transcript, the chat session, the selection, the hover, the
\* board voltage and the jumper suggestion as they were, and leave the slot
\* of the analysis error alone, so that a failed export never shows as ERROR.
C19_ExportLeavesStateAlone ==
    [][(\/ GenerateReport
        \/ \E c \in reportCalls : ReportDone(c)
        \/ \E c \in reportCalls, outcome \in ReportFailures : ReportFail(c, outcome))
          => UNCHANGED <<analysis, chatHistory, chat, selectedId, hoveredId, boardVoltage,
                         jumperSuggestion, error>>]_vars

\* C20: selectedId is null or the designator of a component or the id of a
\* defect of the analysis held; a step that replaces or discards the
\* analysis clears the selection.
C20_SelectionRefersToAnalysis ==
    /\ [](selectedId = NULL \/ selectedId \in ItemIds(analysis))
    /\ [][analysis' # analysis => selectedId' = NULL]_vars

\* C21: when the stored analysis changes from one analysis to another, the
\* chat session is replaced by a new one and the transcript holds no message
\* of the previous analysis.
C21_NewAnalysisNewChat ==
    [][(analysis # JNull /\ analysis' # JNull /\ analysis' # analysis) =>
          /\ chat' # JNull
          /\ chat' # chat
          /\ chatHistory' = <<>>]_vars

\* C22: a chat session exists only with an analysis; a session is created
\* only when none exists, an analysis exists and the key is set; a session
\* goes away only with a reset, so that at most one is created between two
\* resets; and every request sent since the last reset is on the session
\* held.
C22_OneChatPerSession ==
    /\ [](chat # JNull => analysis # JNull)
    /\ [](\A c \in chatCalls : c.session = session => c.chat = chat)
    /\ [][(chat' # chat /\ chat' # JNull) =>
             chat = JNull /\ analysis' # JNull /\ apiKey]_vars
    /\ [][(chat # JNull /\ chat' # chat) => chat' = JNull /\ session' # session]_vars
    /\ [][\A message \in Messages :
             (SendMessage(message) /\ chatsSent' # chatsSent) =>
                 \E c \in chatCalls' \ chatCalls : c.chat = chat /\ chat # JNull]_vars

\* two requests sent since the last reset are in the books, both on the
\* session held, after an earlier session had a chat of its own
C22_SecondSendSameChat ==
    /\ chat # JNull
    /\ chat.id > 1
    /\ chatsSent = 2
    /\ Len(chatHistory) >= 3
    /\ \E c \in chatCalls : c.session = session /\ c.chat = chat

\* C23: every step leaves the transcript as it is or appends one message to
\* it, unless it is a reset (that of an upload included), which empties it;
\* and every reset empties it.
C23_TranscriptAppendOnly ==
    /\ [][\/ chatHistory' = chatHistory
          \/ /\ Len(chatHistory') = Len(chatHistory) + 1
             /\ SubSeq(chatHistory', 1, Len(chatHistory)) = chatHistory
          \/ /\ session' # session
             /\ chatHistory' = <<>>]_vars
    /\ [][session' # session => chatHistory' = <<>>]_vars

\* a transcript of two exchanges, the second ended by the fallback
C23_TwoExchanges ==
    /\ Len(chatHistory) = 4
    /\ chatHistory[1].role = "user"
    /\ chatHistory[2].role = "model"
    /\ chatHistory[2].text # ChatErrorText
    /\ chatHistory[4] = ErrorMessage

\* the reply holds a jumper with two points in its first json block
CarriesJumper(text) ==
    JsonBlockOpens(text) # {} /\ HoldsJumper(text, Min(JsonBlockOpens(text)))

\* C24: a reset clears the jumper suggestion; a reply to a message of the
\* current session that carries a jumper sets it to that jumper; every other
\* step, a reply without a jumper and a reply to a message of an earlier
\* session among them, leaves it as it is.  So it is null until a model
\* message of the current session carries a jumper, and then the jumper of
\* the latest such message.
C24_JumperOfCurrentSession ==
    [][IF session' # session THEN jumperSuggestion' = JNull
       ELSE IF \E c \in chatCalls, text \in SessionChatReplies :
                  Current(c) /\ CarriesJumper(text) /\ ChatReply(c, text)
       THEN \E c \in chatCalls, text \in SessionChatReplies :
               /\ Current(c) /\ CarriesJumper(text) /\ ChatReply(c, text)
               /\ jumperSuggestion' = JumperOf(text, Min(JsonBlockOpens(text)))
       ELSE jumperSuggestion' = jumperSuggestion]_vars

\* presence is not ok, or condition is not ok, or the board voltage exceeds
\* maxVoltage
HasIssue(bv, c) ==
    \/ Get(c, "presence") # JStr("ok")
    \/ Get(c, "condition") # JStr("ok")
    \/ MismatchPredicate(bv, c)
Members(xs) == {xs[i] : i \in 1..Len(xs)}

\* C25: for the analysis shown, every search term and the board voltage,
\* the list of components with issues (explorer, tab count, report) holds
\* exactly the matching components with a presence or condition that is not
\* ok or a maxVoltage below the board voltage, and the list of OK components
\* holds exactly the other matching components.
C25_IssuesAndOkPartition ==
    PanelsShown =>
        LET xs == Get(analysis, "components").xs IN
        /\ \A searchTerm \in SearchTerms :
              /\ ExplorerIssues(xs, searchTerm, boardVoltage)
                    = SelectSeq(Filtered(xs, searchTerm), LAMBDA c : HasIssue(boardVoltage, c))
              /\ ExplorerOk(xs, searchTerm, boardVoltage)
                    = SelectSeq(Filtered(xs, searchTerm), LAMBDA c : ~HasIssue(boardVoltage, c))
              /\ \A c \in Members(Filtered(xs, searchTerm)) :
                    (c \in Members(ExplorerIssues(xs, searchTerm, boardVoltage)))
                        # (c \in Members(ExplorerOk(xs, searchTerm, boardVoltage)))
        /\ PanelIssues(xs, boardVoltage) = SelectSeq(xs, LAMBDA c : HasIssue(boardVoltage, c))
        /\ ReportIssues(xs, boardVoltage) = SelectSeq(xs, LAMBDA c : HasIssue(boardVoltage, c))
        /\ ReportOk(xs, boardVoltage) = SelectSeq(xs, LAMBDA c : ~HasIssue(boardVoltage, c))

\* C26: at most one of loading, error and analysis is set, and none of them
\* is set while no image is set.
C26_OnePhaseAtATime ==
    /\ ~(isLoading /\ error # NULL)
    /\ ~(isLoading /\ analysis # JNull)
    /\ ~(error # NULL /\ analysis # JNull)
    /\ imageUrl = NULL => (~isLoading /\ error = NULL /\ analysis = JNull)

\* C27: the loading flag is true exactly while the analysis request of the
\* current session is in flight.
C27_LoadingWhileRequestPending ==
    isLoading <=> \E c \in analysisCalls : Current(c)

\* C28: after a reset or an upload the chat is not busy, also while a chat
\* call of the session before is in flight, and the first message of the new
\* session is taken.
C28_NewSessionNotBusy ==
    /\ [][session' # session => ~isChatLoading']_vars
    /\ [][\A message \in Messages :
             (SendMessage(message) /\ chatHistory = <<>> /\ chat # JNull) =>
                 chatsSent' = chatsSent + 1]_vars

\* C29: every model message of the transcript comes right after a user
\* message, so the transcript never starts with a model message, and the
\* transcript has an even length while the chat is not busy.
C29_TranscriptOfExchanges ==
    /\ \A i \in 1..Len(chatHistory) :
          chatHistory[i].role = "model" => (i > 1 /\ chatHistory[i - 1].role = "user")
    /\ ~isChatLoading => Len(chatHistory) % 2 = 0

\* C30: every way the analysis request of the current session ends, a
\* failed read of the image file included, clears the loading flag and
\* leaves the controller with an analysis or with an error.
C30_UploadLeavesLoading ==
    [][\A c \in analysisCalls :
          (Current(c) /\ (FileReadFail(c) \/ AnalysisCompletes(c))) =>
              /\ ~isLoading'
              /\ (analysis' # JNull \/ error' # NULL)]_vars

=============================================================================
